---- MODULE Spec2Model ----
(***************************************************************************)
(* JaxBrew 2001 (src/app/main.py): the in-memory vessel list, the          *)
(* temperature simulation, the tolerance evaluation and the JSON API       *)
(* handlers for telemetry, setpoint and tolerance.                         *)
(*                                                                         *)
(* Temperatures are Python floats.  They are represented here as integers  *)
(* in hundredths of a degree (65.0 is 6500), the resolution simulate_temps *)
(* rounds to, plus the IEEE-754 NaN, which the API accepts as a float and  *)
(* for which every ordered comparison is false.                            *)
(*                                                                         *)
(* A vessel is a Python dict: a function from keys to values, whose        *)
(* DOMAIN grows when api_telemetry inserts "last_in_tolerance".  The       *)
(* descriptive keys volume_l, heated and notes are never read or written   *)
(* by any handler and are left out of the dicts.                           *)
(***************************************************************************)
EXTENDS Integers, Sequences, FiniteSets, TLC

VARIABLES
    VESSELS,      \* the module-level list of vessel dicts
    DUMMY_MODE,   \* the configuration flag selecting simulated temperatures
    now,          \* the wall clock read by datetime.now()
    sent,         \* the calls made to send_email_alert / send_whatsapp_alert
    req,          \* the last request served
    prev,         \* VESSELS and sent as they were before that request
    resp,         \* the response to that request
    eval_in,      \* a vessel dict handed to vessel_with_status on its own
    eval_out,     \* the in_tolerance flag it returned, "pending" before
    tasks,        \* the api_telemetry coroutines the event loop holds
    twin          \* the outcome of the last telemetry body under another unit

vars == <<VESSELS, DUMMY_MODE, now, sent, req, prev, resp, eval_in, eval_out,
          tasks, twin>>

----------------------------------------------------------------------------
(* Bounds *)

\* the clock stops the model after this many requests
MaxNow == 3

----------------------------------------------------------------------------
(* Floats *)

\* NaN is encoded as an integer below every temperature the model handles
NaN == -(10^7)

IsNaN(x) == x = NaN

\* Python's <, >, <= on floats: false whenever an operand is NaN
FLt(a, b) == ~IsNaN(a) /\ ~IsNaN(b) /\ a < b
FGt(a, b) == ~IsNaN(a) /\ ~IsNaN(b) /\ a > b
FLe(a, b) == ~IsNaN(a) /\ ~IsNaN(b) /\ a <= b

FSub(a, b) == IF IsNaN(a) \/ IsNaN(b) THEN NaN ELSE a - b
FAbs(a) == IF IsNaN(a) THEN NaN ELSE IF a < 0 THEN -a ELSE a

\* Python's two-argument min and max: the first argument unless the second
\* compares strictly below (above) it
PyMin(a, b) == IF FLt(b, a) THEN b ELSE a
PyMax(a, b) == IF FGt(b, a) THEN b ELSE a

----------------------------------------------------------------------------
(* Dicts *)

Has(d, k) == k \in DOMAIN d
\* d[k] = x
SetKey(d, k, x) == (k :> x) @@ d
\* setdefault overwriting a key that is there
SetAlways(d, k, x) == SetKey(d, k, x)
\* d.setdefault(k, x)
SetDefault(d, k, x) == IF Has(d, k) THEN d ELSE SetKey(d, k, x)

\* the value None
None == "None"

----------------------------------------------------------------------------
(* The brewery layout *)

LAYOUT ==
    << [id |-> "guid-hlt", code |-> "hlt", name |-> "Hot Liquor Tank",
        type |-> "HLT", current_temp |-> 2000, target_temp |-> 6500,
        tolerance_c |-> 200, last_update |-> 0],
       [id |-> "guid-mash", code |-> "mash", name |-> "Mash Tun",
        type |-> "Mash tun", current_temp |-> 2000, target_temp |-> 6600,
        tolerance_c |-> 200, last_update |-> 0],
       [id |-> "guid-kettle", code |-> "kettle", name |-> "Kettle",
        type |-> "Kettle", current_temp |-> 2000, target_temp |-> 10000,
        tolerance_c |-> 200, last_update |-> 0],
       [id |-> "guid-fermenter-1", code |-> "fermenter-1", name |-> "Fermenter 1",
        type |-> "Fermenter", current_temp |-> 1850, target_temp |-> 1900,
        tolerance_c |-> 200, last_update |-> 0],
       [id |-> "guid-fermenter-2", code |-> "fermenter-2", name |-> "Fermenter 2",
        type |-> "Fermenter", current_temp |-> 1800, target_temp |-> 1900,
        tolerance_c |-> 200, last_update |-> 0],
       [id |-> "guid-fermenter-3", code |-> "fermenter-3", name |-> "Fermenter 3",
        type |-> "Fermenter", current_temp |-> 1750, target_temp |-> 1900,
        tolerance_c |-> 200, last_update |-> 0] >>

\* The vessels the model tracks: one of each clamping category.  No handler
\* reads one vessel while writing another, so the others only multiply states.
ModelledCodes == {"hlt", "fermenter-1"}

InitialVessels == SelectSeq(LAYOUT, LAMBDA v : v.code \in ModelledCodes)

\* an id no vessel has
UnknownId == "guid-unknown"

VesselIds == {LAYOUT[i].id : i \in 1..Len(LAYOUT)} \cup {UnknownId}
RequestIds == {InitialVessels[i].id : i \in 1..Len(InitialVessels)} \cup {UnknownId}

----------------------------------------------------------------------------
(* Lookups and the tolerance evaluator *)

\* get_vessel falling back to the first vessel instead of None
get_vessel_first(vessel_id) ==
    LET hits == {i \in 1..Len(VESSELS) : VESSELS[i].id = vessel_id}
    IN  IF hits = {} THEN 1 ELSE CHOOSE i \in hits : \A j \in hits : i <= j

\* get_vessel: the index of the first vessel with this id, 0 for None
get_vessel(vessel_id) ==
    LET hits == {i \in 1..Len(VESSELS) : VESSELS[i].id = vessel_id}
    IN  IF hits = {} THEN 0 ELSE CHOOSE i \in hits : \A j \in hits : i <= j

\* the flag with an exclusive band edge
in_tolerance_strict(v) ==
    IF Has(v, "current_temp") /\ Has(v, "target_temp") /\ Has(v, "tolerance_c")
    THEN FLt(FAbs(FSub(v.current_temp, v.target_temp)), v.tolerance_c)
    ELSE FALSE

\* the in_tolerance flag vessel_with_status computes for a vessel dict
in_tolerance(v) ==
    IF Has(v, "current_temp") /\ Has(v, "target_temp") /\ Has(v, "tolerance_c")
    THEN FLe(FAbs(FSub(v.current_temp, v.target_temp)), v.tolerance_c)
    ELSE FALSE

\* vessel_with_status: a copy of the dict with the flag added
vessel_with_status(v) == SetKey(v, "in_tolerance", in_tolerance(v))

\* a Python bool as stored in a dict
PyBool(b) == IF b THEN "True" ELSE "False"

Alert(kind, v) == [kind |-> kind, vessel |-> v.id]

\* check_alerts_for_vessel alerting on every out-of-tolerance reading
check_alerts_level(v) ==
    LET vs     == vessel_with_status(v)
        in_tol == vs.in_tolerance
    IN  [v      |-> SetKey(v, "last_in_tolerance", PyBool(in_tol)),
         alerts |-> IF in_tol THEN << >> ELSE << Alert("OUT OF TOLERANCE", v) >>]

\* check_alerts_for_vessel alerting on every reading that is in tolerance
check_alerts_level_in(v) ==
    LET vs     == vessel_with_status(v)
        in_tol == vs.in_tolerance
    IN  [v      |-> SetKey(v, "last_in_tolerance", PyBool(in_tol)),
         alerts |-> IF in_tol THEN << Alert("BACK WITHIN TOLERANCE", v) >> ELSE << >>]

\* check_alerts_for_vessel alerting whenever the verdict differs from the
\* stored one, the start state None included
check_alerts_no_baseline(v) ==
    LET vs     == vessel_with_status(v)
        in_tol == vs.in_tolerance
    IN  [v      |-> SetKey(v, "last_in_tolerance", PyBool(in_tol)),
         alerts |-> IF Has(v, "last_in_tolerance") /\ v.last_in_tolerance = PyBool(in_tol)
                    THEN << >>
                    ELSE << Alert(IF in_tol THEN "BACK WITHIN TOLERANCE"
                                  ELSE "OUT OF TOLERANCE", v) >>]

\* check_alerts_for_vessel storing only the first verdict
check_alerts_first_only(v) ==
    LET vs     == vessel_with_status(v)
        in_tol == vs.in_tolerance
    IN  [v      |-> IF Has(v, "last_in_tolerance") /\ v.last_in_tolerance # None
                    THEN v
                    ELSE SetKey(v, "last_in_tolerance", PyBool(in_tol)),
         alerts |-> << >>]

\* check_alerts_for_vessel: stores the verdict in the dict.  alerts lists the
\* calls it makes to send_email_alert / send_whatsapp_alert: none, the
\* alerting is parked.
check_alerts_for_vessel(v) ==
    LET vs     == vessel_with_status(v)
        in_tol == vs.in_tolerance
    IN  [v      |-> SetKey(v, "last_in_tolerance", PyBool(in_tol)),
         alerts |-> << >>]

----------------------------------------------------------------------------
(* The temperature simulation *)

\* simulate_temps works in floats; the model carries the sum before rounding
\* in twentieths of a hundredth of a degree, so that diff * 0.05 is exact
SubUnits == 20

\* values of random.uniform(-0.3, 0.3) in those units: the two ends
Draws == {-600, 600}

\* the step with the pull reversed: away from the target
new_temp_away(v, r) ==
    LET cur    == IF Has(v, "current_temp") THEN v.current_temp ELSE 2000
        target == IF Has(v, "target_temp") THEN v.target_temp ELSE cur
        diff   == FSub(cur, target)
    IN  IF IsNaN(diff) THEN NaN ELSE cur * SubUnits + r + diff

\* cur + step for one draw
new_temp(v, r) ==
    LET cur    == IF Has(v, "current_temp") THEN v.current_temp ELSE 2000
        target == IF Has(v, "target_temp") THEN v.target_temp ELSE cur
        diff   == FSub(target, cur)
    IN  IF IsNaN(diff) THEN NaN ELSE cur * SubUnits + r + diff

\* the clamp with the fermenter range forgotten
clamp_one_range(v, x) ==
    PyMax(0, PyMin(10000 * SubUnits, x))

\* the clamp ranges, by vessel type
clamp(v, x) ==
    IF v.type = "Fermenter"
    THEN PyMax(1500 * SubUnits, PyMin(2500 * SubUnits, x))
    ELSE PyMax(0, PyMin(10000 * SubUnits, x))

\* round(x, 2): the nearest hundredth; at an exact half the float's binary
\* representation decides, so either neighbour may come out
round2(x) ==
    LET q == x \div SubUnits
        m == x % SubUnits
    IN  IF 2 * m < SubUnits THEN {q}
        ELSE IF 2 * m > SubUnits THEN {q + 1}
        ELSE {q, q + 1}

\* the loop body re-evaluating the tolerance state after moving the temperature
simulated_reeval(v, t) ==
    { check_alerts_for_vessel(
          SetKey(SetKey(v, "current_temp", c), "last_update", t)).v :
        c \in UNION { round2(clamp(v, new_temp(v, r))) : r \in Draws } }

\* the dicts one vessel can be left as by one pass of the loop at time t
simulated(v, t) ==
    { SetKey(SetKey(v, "current_temp", c), "last_update", t) :
        c \in UNION { round2(clamp(v, new_temp(v, r))) : r \in Draws } }

\* simulate_temps: the lists VESSELS can be left as
simulate_temps(vs, t) ==
    IF ~DUMMY_MODE THEN {vs}
    ELSE { s \in [1..Len(vs) -> UNION {simulated(vs[i], t) : i \in 1..Len(vs)}] :
             \A i \in 1..Len(vs) : s[i] \in simulated(vs[i], t) }

----------------------------------------------------------------------------
(* Requests *)

\* request bodies the model submits: each range's two boundaries, a value
\* just outside each, and NaN; for telemetry also 67.0 and 68.0, the edge of
\* the hot liquor tank's band and the first value beyond it
TelemetryTemps == {-1001, -1000, 6700, 6800, 12000, 12001, NaN}
SetpointTemps == {-1, 0, 10000, 10001, NaN}
Tolerances == {-1, 0, 5000, 5001, NaN}

\* the sanity checks with the boundary values refused
temperature_out_of_range_excl(temperature) ==
    FLe(temperature, -1000) \/ FLe(12000, temperature)

target_out_of_range_excl(targetTemp) ==
    FLe(targetTemp, 0) \/ FLe(10000, targetTemp)

tolerance_out_of_range_excl(toleranceC) ==
    FLe(toleranceC, 0) \/ FLe(5000, toleranceC)

\* the sanity checks of the three POST handlers
temperature_out_of_range(temperature) ==
    FLt(temperature, -1000) \/ FGt(temperature, 12000)

target_out_of_range(targetTemp) ==
    FLt(targetTemp, 0) \/ FGt(targetTemp, 10000)

tolerance_out_of_range(toleranceC) ==
    FLt(toleranceC, 0) \/ FGt(toleranceC, 5000)

HTTPException(code, detail) == [status |-> code, detail |-> detail]
Ok(body) == [status |-> 200, body |-> body]

\* every request reads the clock once and leaves the evaluator probe alone
Served(r) ==
    /\ now < MaxNow
    /\ now' = now + 1
    /\ req' = r
    /\ prev' = [VESSELS |-> VESSELS, sent |-> sent]
    /\ UNCHANGED <<DUMMY_MODE, eval_in, eval_out, tasks, twin>>

\* GET /api/vessels answering with the flags computed before the simulation
api_get_vessels_stale ==
    /\ Served([op |-> "get_vessels"])
    /\ VESSELS' \in simulate_temps(VESSELS, now')
    /\ resp' = Ok([i \in 1..Len(VESSELS) |-> vessel_with_status(VESSELS[i])])
    /\ UNCHANGED sent

\* GET /api/vessels
api_get_vessels ==
    /\ Served([op |-> "get_vessels"])
    /\ VESSELS' \in simulate_temps(VESSELS, now')
    /\ resp' = Ok([i \in 1..Len(VESSELS') |-> vessel_with_status(VESSELS'[i])])
    /\ UNCHANGED sent

\* GET /api/vessels/{vessel_id} simulating the requested vessel only
api_get_vessel_only(vessel_id) ==
    /\ Served([op |-> "get_vessel", id |-> vessel_id])
    /\ LET i == get_vessel(vessel_id)
       IN  /\ VESSELS' \in { [j \in 1..Len(VESSELS) |-> IF j = i THEN s[j] ELSE VESSELS[j]] :
                               s \in simulate_temps(VESSELS, now') }
           /\ resp' = IF i = 0 THEN HTTPException(404, "Unknown vessel")
                       ELSE Ok(vessel_with_status(VESSELS'[i]))
    /\ UNCHANGED sent

\* GET /api/vessels/{vessel_id}
api_get_vessel(vessel_id) ==
    /\ Served([op |-> "get_vessel", id |-> vessel_id])
    /\ VESSELS' \in simulate_temps(VESSELS, now')
    /\ LET i == get_vessel(vessel_id)
       IN  resp' = IF i = 0 THEN HTTPException(404, "Unknown vessel")
                   ELSE Ok(vessel_with_status(VESSELS'[i]))
    /\ UNCHANGED sent

\* POST /api/telemetry letting a failed alert dispatch reach the caller: a
\* changed verdict is answered 500
api_telemetry_dispatch_raises(vesselId, temperature) ==
    /\ Served([op |-> "telemetry", id |-> vesselId, arg |-> temperature])
    /\ LET i == get_vessel(vesselId)
       IN  IF i = 0
           THEN /\ resp' = HTTPException(404, "Unknown vessel")
                /\ UNCHANGED <<VESSELS, sent>>
           ELSE IF temperature_out_of_range(temperature)
           THEN /\ resp' = HTTPException(400, "Temperature out of range")
                /\ UNCHANGED <<VESSELS, sent>>
           ELSE LET v1 == SetKey(VESSELS[i], "current_temp", temperature)
                    v2 == SetKey(v1, "last_update", now')
                    v3 == SetDefault(v2, "target_temp", temperature)
                    v4 == SetDefault(v3, "tolerance_c", 0)
                    v5 == SetDefault(v4, "last_in_tolerance", None)
                    c  == check_alerts_for_vessel(v5)
                IN  /\ VESSELS' = [VESSELS EXCEPT ![i] = c.v]
                    /\ sent' = sent \o c.alerts
                    /\ resp' = IF v5.last_in_tolerance \in {None, c.v.last_in_tolerance}
                               THEN Ok([ok |-> TRUE])
                               ELSE HTTPException(500, "Internal Server Error")

\* POST /api/telemetry creating a vessel for an id it does not know
api_telemetry_upsert(vesselId, temperature) ==
    /\ Served([op |-> "telemetry", id |-> vesselId, arg |-> temperature])
    /\ LET i == get_vessel(vesselId)
       IN  IF temperature_out_of_range(temperature)
           THEN /\ resp' = HTTPException(400, "Temperature out of range")
                /\ UNCHANGED <<VESSELS, sent>>
           ELSE LET v0 == IF i = 0 THEN [id |-> vesselId, code |-> vesselId, type |-> "HLT"]
                          ELSE VESSELS[i]
                    v1 == SetKey(v0, "current_temp", temperature)
                    v2 == SetKey(v1, "last_update", now')
                    v3 == SetDefault(v2, "target_temp", temperature)
                    v4 == SetDefault(v3, "tolerance_c", 0)
                    v5 == SetDefault(v4, "last_in_tolerance", None)
                    c  == check_alerts_for_vessel(v5)
                IN  /\ VESSELS' = IF i = 0 THEN Append(VESSELS, c.v)
                                  ELSE [VESSELS EXCEPT ![i] = c.v]
                    /\ sent' = sent \o c.alerts
                    /\ resp' = Ok([ok |-> TRUE])

\* POST /api/telemetry checking the temperature before looking the vessel up
api_telemetry_range_first(vesselId, temperature) ==
    /\ Served([op |-> "telemetry", id |-> vesselId, arg |-> temperature])
    /\ LET i == get_vessel(vesselId)
       IN  IF temperature_out_of_range(temperature)
           THEN /\ resp' = HTTPException(400, "Temperature out of range")
                /\ UNCHANGED <<VESSELS, sent>>
           ELSE IF i = 0
           THEN /\ resp' = HTTPException(404, "Unknown vessel")
                /\ UNCHANGED <<VESSELS, sent>>
           ELSE LET v1 == SetKey(VESSELS[i], "current_temp", temperature)
                    v2 == SetKey(v1, "last_update", now')
                    v3 == SetDefault(v2, "target_temp", temperature)
                    v4 == SetDefault(v3, "tolerance_c", 0)
                    v5 == SetDefault(v4, "last_in_tolerance", None)
                    c  == check_alerts_for_vessel(v5)
                IN  /\ VESSELS' = [VESSELS EXCEPT ![i] = c.v]
                    /\ sent' = sent \o c.alerts
                    /\ resp' = Ok([ok |-> TRUE])

\* POST /api/telemetry
api_telemetry(vesselId, temperature) ==
    /\ Served([op |-> "telemetry", id |-> vesselId, arg |-> temperature])
    /\ LET i == get_vessel(vesselId)
       IN  IF i = 0
           THEN /\ resp' = HTTPException(404, "Unknown vessel")
                /\ UNCHANGED <<VESSELS, sent>>
           ELSE IF temperature_out_of_range(temperature)
           THEN /\ resp' = HTTPException(400, "Temperature out of range")
                /\ UNCHANGED <<VESSELS, sent>>
           ELSE LET v1 == SetKey(VESSELS[i], "current_temp", temperature)
                    v2 == SetKey(v1, "last_update", now')
                    v3 == SetDefault(v2, "target_temp", temperature)
                    v4 == SetDefault(v3, "tolerance_c", 0)
                    v5 == SetDefault(v4, "last_in_tolerance", None)
                    c  == check_alerts_for_vessel(v5)
                IN  /\ VESSELS' = [VESSELS EXCEPT ![i] = c.v]
                    /\ sent' = sent \o c.alerts
                    /\ resp' = Ok([ok |-> TRUE])

\* POST /api/vessels/{vessel_id}/setpoint putting the alert state back to its
\* start state
api_set_setpoint_rearm(vessel_id, targetTemp) ==
    /\ Served([op |-> "setpoint", id |-> vessel_id, arg |-> targetTemp])
    /\ UNCHANGED sent
    /\ LET i == get_vessel(vessel_id)
       IN  IF i = 0
           THEN /\ resp' = HTTPException(404, "Unknown vessel")
                /\ UNCHANGED VESSELS
           ELSE IF target_out_of_range(targetTemp)
           THEN /\ resp' = HTTPException(400, "Target temperature out of range")
                /\ UNCHANGED VESSELS
           ELSE /\ VESSELS' = [VESSELS EXCEPT ![i] =
                       SetKey(SetKey(SetKey(@, "target_temp", targetTemp),
                                     "last_update", now'),
                              "last_in_tolerance", None)]
                /\ resp' = Ok([ok |-> TRUE, targetTemp |-> targetTemp])

\* POST /api/vessels/{vessel_id}/setpoint
api_set_setpoint(vessel_id, targetTemp) ==
    /\ Served([op |-> "setpoint", id |-> vessel_id, arg |-> targetTemp])
    /\ UNCHANGED sent
    /\ LET i == get_vessel(vessel_id)
       IN  IF i = 0
           THEN /\ resp' = HTTPException(404, "Unknown vessel")
                /\ UNCHANGED VESSELS
           ELSE IF target_out_of_range(targetTemp)
           THEN /\ resp' = HTTPException(400, "Target temperature out of range")
                /\ UNCHANGED VESSELS
           ELSE /\ VESSELS' = [VESSELS EXCEPT ![i] =
                       SetKey(SetKey(@, "target_temp", targetTemp), "last_update", now')]
                /\ resp' = Ok([ok |-> TRUE, targetTemp |-> targetTemp])

\* POST /api/vessels/{vessel_id}/tolerance re-running the tolerance check
api_set_tolerance_reeval(vessel_id, toleranceC) ==
    /\ Served([op |-> "tolerance", id |-> vessel_id, arg |-> toleranceC])
    /\ UNCHANGED sent
    /\ LET i == get_vessel(vessel_id)
       IN  IF i = 0
           THEN /\ resp' = HTTPException(404, "Unknown vessel")
                /\ UNCHANGED VESSELS
           ELSE IF tolerance_out_of_range(toleranceC)
           THEN /\ resp' = HTTPException(400, "Tolerance out of range")
                /\ UNCHANGED VESSELS
           ELSE /\ VESSELS' = [VESSELS EXCEPT ![i] =
                       check_alerts_for_vessel(
                           SetKey(SetKey(@, "tolerance_c", toleranceC), "last_update", now')).v]
                /\ resp' = Ok([ok |-> TRUE, toleranceC |-> toleranceC])

\* POST /api/vessels/{vessel_id}/tolerance
api_set_tolerance(vessel_id, toleranceC) ==
    /\ Served([op |-> "tolerance", id |-> vessel_id, arg |-> toleranceC])
    /\ UNCHANGED sent
    /\ LET i == get_vessel(vessel_id)
       IN  IF i = 0
           THEN /\ resp' = HTTPException(404, "Unknown vessel")
                /\ UNCHANGED VESSELS
           ELSE IF tolerance_out_of_range(toleranceC)
           THEN /\ resp' = HTTPException(400, "Tolerance out of range")
                /\ UNCHANGED VESSELS
           ELSE /\ VESSELS' = [VESSELS EXCEPT ![i] =
                       SetKey(SetKey(@, "tolerance_c", toleranceC), "last_update", now')]
                /\ resp' = Ok([ok |-> TRUE, toleranceC |-> toleranceC])

----------------------------------------------------------------------------
(* api_telemetry statement by statement, as a coroutine of the event loop *)

\* the units a Telemetry body may name; the field is any string, "C" when
\* the body leaves it out
Units == {"C", "F"}

\* a Telemetry body
Telemetry(vesselId, temperature, unit) ==
    [vesselId |-> vesselId, temperature |-> temperature, unit |-> unit]

\* a call of api_telemetry(data) that has not started: v and in_tol are its
\* locals (the position of the dict v refers to, and the flag read from
\* vessel_with_status), resp what it has answered
Coroutine(data) ==
    [data |-> data, pc |-> "start", v |-> 0, in_tol |-> None,
     resp |-> [status |-> 0]]

\* the handler converting a Fahrenheit reading before storing it
telemetry_step_fahrenheit(vs, c, t) ==
    LET temperature == IF c.data.unit = "F" /\ ~IsNaN(c.data.temperature)
                       THEN ((c.data.temperature - 3200) * 5) \div 9
                       ELSE c.data.temperature
    IN
    CASE c.pc = "start" ->
           LET i == get_vessel(c.data.vesselId)
           IN  IF i = 0
               THEN [VESSELS |-> vs,
                     c |-> [c EXCEPT !.pc = "done",
                              !.resp = HTTPException(404, "Unknown vessel")]]
               ELSE IF temperature_out_of_range(temperature)
               THEN [VESSELS |-> vs,
                     c |-> [c EXCEPT !.pc = "done",
                              !.resp = HTTPException(400, "Temperature out of range")]]
               ELSE LET v1 == SetKey(vs[i], "current_temp", temperature)
                        v2 == SetKey(v1, "last_update", t)
                        v3 == SetDefault(v2, "target_temp", temperature)
                        v4 == SetDefault(v3, "tolerance_c", 0)
                        v5 == SetDefault(v4, "last_in_tolerance", None)
                    IN  [VESSELS |-> [vs EXCEPT ![i] = v5],
                         c |-> [c EXCEPT !.pc = "evaluate", !.v = i]]
      [] c.pc = "evaluate" ->
           [VESSELS |-> vs,
            c |-> [c EXCEPT !.pc = "store",
                     !.in_tol = PyBool(vessel_with_status(vs[c.v]).in_tolerance)]]
      [] c.pc = "store" ->
           [VESSELS |-> [vs EXCEPT ![c.v] = SetKey(@, "last_in_tolerance", c.in_tol)],
            c |-> [c EXCEPT !.pc = "done", !.resp = Ok([ok |-> TRUE])]]

\* one statement group of api_telemetry run by coroutine c on the list vs at
\* time t: the lookup, the range check and the writes of the handler body;
\* then, inside check_alerts_for_vessel, the evaluation; then the store of
\* its result and the return
telemetry_step(vs, c, t) ==
    CASE c.pc = "start" ->
           LET i == get_vessel(c.data.vesselId)
           IN  IF i = 0
               THEN [VESSELS |-> vs,
                     c |-> [c EXCEPT !.pc = "done",
                              !.resp = HTTPException(404, "Unknown vessel")]]
               ELSE IF temperature_out_of_range(c.data.temperature)
               THEN [VESSELS |-> vs,
                     c |-> [c EXCEPT !.pc = "done",
                              !.resp = HTTPException(400, "Temperature out of range")]]
               ELSE LET v1 == SetKey(vs[i], "current_temp", c.data.temperature)
                        v2 == SetKey(v1, "last_update", t)
                        v3 == SetDefault(v2, "target_temp", c.data.temperature)
                        v4 == SetDefault(v3, "tolerance_c", 0)
                        v5 == SetDefault(v4, "last_in_tolerance", None)
                    IN  [VESSELS |-> [vs EXCEPT ![i] = v5],
                         c |-> [c EXCEPT !.pc = "evaluate", !.v = i]]
      [] c.pc = "evaluate" ->
           [VESSELS |-> vs,
            c |-> [c EXCEPT !.pc = "store",
                     !.in_tol = PyBool(vessel_with_status(vs[c.v]).in_tolerance)]]
      [] c.pc = "store" ->
           [VESSELS |-> [vs EXCEPT ![c.v] = SetKey(@, "last_in_tolerance", c.in_tol)],
            c |-> [c EXCEPT !.pc = "done", !.resp = Ok([ok |-> TRUE])]]

\* the handler giving the event loop control after every statement group
await_after_each(pc) == TRUE

\* whether the coroutine gives the event loop control after the statement
\* group at pc: api_telemetry is an async def whose body, and the functions
\* it calls, hold no await
await_after(pc) == FALSE

\* the coroutine run from where it stands until it returns or awaits
RECURSIVE run_until_await(_, _, _)
run_until_await(vs, c, t) ==
    LET s == telemetry_step(vs, c, t)
    IN  IF s.c.pc = "done" \/ await_after(c.pc)
        THEN s
        ELSE run_until_await(s.VESSELS, s.c, t)

\* one turn of the event loop: it resumes coroutine k
event_loop_turn(k) ==
    /\ tasks[k].pc # "done"
    /\ now' = now + 1
    /\ LET s == run_until_await(VESSELS, tasks[k], now')
       IN  /\ VESSELS' = s.VESSELS
           /\ tasks' = [tasks EXCEPT ![k] = s.c]
           /\ resp' = s.c.resp
    /\ req' = [op |-> "telemetry", id |-> tasks[k].data.vesselId,
               arg |-> tasks[k].data.temperature]
    /\ prev' = [VESSELS |-> VESSELS, sent |-> sent]
    /\ UNCHANGED <<DUMMY_MODE, sent, eval_in, eval_out, twin>>

\* POST /api/telemetry with a body naming its unit; twin records what the
\* same request would have done to the same list had it named other_unit
api_telemetry_unit(vesselId, temperature, unit, other_unit) ==
    /\ now < MaxNow
    /\ now' = now + 1
    /\ req' = [op |-> "telemetry", id |-> vesselId, arg |-> temperature,
               unit |-> unit]
    /\ prev' = [VESSELS |-> VESSELS, sent |-> sent]
    /\ LET s == run_until_await(VESSELS,
                    Coroutine(Telemetry(vesselId, temperature, unit)), now')
           o == run_until_await(VESSELS,
                    Coroutine(Telemetry(vesselId, temperature, other_unit)), now')
       IN  /\ VESSELS' = s.VESSELS
           /\ resp' = s.c.resp
           /\ twin' = [status |-> 1, unit |-> other_unit,
                       VESSELS |-> o.VESSELS, resp |-> o.c.resp]
    /\ UNCHANGED <<DUMMY_MODE, sent, eval_in, eval_out, tasks>>

----------------------------------------------------------------------------
(* The application *)

Init ==
    /\ VESSELS = InitialVessels
    /\ DUMMY_MODE = TRUE
    /\ now = 0
    /\ sent = << >>
    /\ req = [op |-> "startup"]
    /\ prev = [VESSELS |-> InitialVessels, sent |-> << >>]
    /\ resp = [status |-> 0]
    /\ eval_in = << >>
    /\ eval_out = "pending"
    /\ tasks = << >>
    /\ twin = [status |-> 0]

GetVessels == api_get_vessels
GetVessel == \E id \in RequestIds : api_get_vessel(id)
PostTelemetry == \E id \in RequestIds, t \in TelemetryTemps : api_telemetry(id, t)
PostSetpoint == \E id \in RequestIds, t \in SetpointTemps : api_set_setpoint(id, t)
PostTolerance == \E id \in RequestIds, t \in Tolerances : api_set_tolerance(id, t)

Next ==
    \/ GetVessels
    \/ GetVessel
    \/ PostTelemetry
    \/ PostSetpoint
    \/ PostTolerance

Spec == Init /\ [][Next]_vars

\* The application with DUMMY_MODE set either way before startup
InitModes ==
    /\ VESSELS = InitialVessels
    /\ DUMMY_MODE \in BOOLEAN
    /\ now = 0
    /\ sent = << >>
    /\ req = [op |-> "startup"]
    /\ prev = [VESSELS |-> InitialVessels, sent |-> << >>]
    /\ resp = [status |-> 0]
    /\ eval_in = << >>
    /\ eval_out = "pending"
    /\ tasks = << >>
    /\ twin = [status |-> 0]

SpecModes == InitModes /\ [][Next]_vars

\* The application receiving telemetry and tolerance updates only: a stored
\* verdict can then disagree with the band only because the band was changed
NextTelemetryTolerance ==
    \/ PostTelemetry
    \/ PostTolerance

SpecTelemetryTolerance == Init /\ [][NextTelemetryTolerance]_vars

\* Telemetry submissions for one vessel in flight together: MaxTasks bodies
\* have been received and their coroutines wait for the event loop
MaxTasks == 2

InitConcurrent ==
    /\ VESSELS = InitialVessels
    /\ DUMMY_MODE = TRUE
    /\ now = 0
    /\ sent = << >>
    /\ req = [op |-> "startup"]
    /\ prev = [VESSELS |-> InitialVessels, sent |-> << >>]
    /\ resp = [status |-> 0]
    /\ eval_in = << >>
    /\ eval_out = "pending"
    /\ \E id \in RequestIds :
          tasks \in [1..MaxTasks ->
                       {Coroutine(Telemetry(id, t, "C")) : t \in TelemetryTemps}]
    /\ twin = [status |-> 0]

NextConcurrent == \E k \in 1..Len(tasks) : event_loop_turn(k)

SpecConcurrent == InitConcurrent /\ [][NextConcurrent]_vars

\* The application receiving telemetry bodies that name a unit, and setpoints
PostTelemetryUnit ==
    \E id \in RequestIds, t \in TelemetryTemps, u \in Units, o \in Units :
        api_telemetry_unit(id, t, u, o)

NextUnits ==
    \/ PostTelemetryUnit
    \/ PostSetpoint

SpecUnits == Init /\ [][NextUnits]_vars

----------------------------------------------------------------------------
(* The tolerance evaluator on its own: vessel_with_status applied to dicts *)
(* in which any of the three keys it reads may be missing                  *)

EvalKeys == {"current_temp", "target_temp", "tolerance_c"}
EvalValues == {0, 200, 6500, 6700, NaN}
EvalDicts == UNION { [K -> EvalValues] : K \in SUBSET EvalKeys }

InitEval ==
    /\ VESSELS = InitialVessels
    /\ DUMMY_MODE = TRUE
    /\ now = 0
    /\ sent = << >>
    /\ req = [op |-> "startup"]
    /\ prev = [VESSELS |-> InitialVessels, sent |-> << >>]
    /\ resp = [status |-> 0]
    /\ eval_in \in EvalDicts
    /\ eval_out = "pending"
    /\ tasks = << >>
    /\ twin = [status |-> 0]

Evaluate ==
    /\ eval_out = "pending"
    /\ eval_out' = PyBool(vessel_with_status(eval_in).in_tolerance)
    /\ UNCHANGED <<VESSELS, DUMMY_MODE, now, sent, req, prev, resp, eval_in,
                   tasks, twin>>

NextEval == Evaluate

SpecEval == InitEval /\ [][NextEval]_vars

----------------------------------------------------------------------------
(* Properties.  They read the last request (req), the state it was served  *)
(* in (prev), its response (resp) and the state it left.                   *)

\* the request named a vessel of the list
Known == Has(req, "id") /\ \E i \in 1..Len(prev.VESSELS) : prev.VESSELS[i].id = req.id
\* the position of that vessel
Addressed == CHOOSE i \in 1..Len(prev.VESSELS) : prev.VESSELS[i].id = req.id
Before == prev.VESSELS[Addressed]
After == VESSELS[Addressed]

\* the tri-state the vessel's dict records
Unknown == "unknown"
LastInTolerance(v) ==
    IF Has(v, "last_in_tolerance") /\ v.last_in_tolerance # None
    THEN v.last_in_tolerance ELSE Unknown

\* the alert calls made while serving the last request
Emitted == SubSeq(sent, Len(prev.sent) + 1, Len(sent))

\* the last request was a telemetry submission that succeeded
TelemetryOk == req.op = "telemetry" /\ resp.status = 200

\* |temperature - target_temp| <= tolerance_c and > tolerance_c, for the
\* submitted temperature against the vessel as it was
Within(t, v) ==
    /\ ~IsNaN(t) /\ ~IsNaN(v.target_temp) /\ ~IsNaN(v.tolerance_c)
    /\ t - v.target_temp <= v.tolerance_c
    /\ v.target_temp - t <= v.tolerance_c
Beyond(t, v) ==
    /\ ~IsNaN(t) /\ ~IsNaN(v.target_temp) /\ ~IsNaN(v.tolerance_c)
    /\ (t - v.target_temp > v.tolerance_c \/ v.target_temp - t > v.tolerance_c)

\* every vessel but the addressed one is as it was
OthersUnchanged ==
    /\ Len(VESSELS) = Len(prev.VESSELS)
    /\ \A i \in 1..Len(VESSELS) : i # Addressed => VESSELS[i] = prev.VESSELS[i]

\* the addressed vessel's dict differs from what it was in these keys at most
OnlyKeysChanged(keys) ==
    /\ DOMAIN After \ keys = DOMAIN Before \ keys
    /\ \A k \in DOMAIN Before \ keys : After[k] = Before[k]

\* C1 as stated: a successful out-of-tolerance submission for a vessel whose
\* last_in_tolerance is true emits exactly one "OUT OF TOLERANCE"
\* notification, and one for a vessel already out of tolerance emits none.
C1_EmitsOneOutOfTolerance ==
    (TelemetryOk /\ Beyond(req.arg, Before)) =>
        /\ LastInTolerance(Before) = "True" =>
              (Len(Emitted) = 1 /\ Emitted[1].kind = "OUT OF TOLERANCE")
        /\ LastInTolerance(Before) = "False" => Emitted = << >>

\* C1 amended: a successful out-of-tolerance submission for a vessel whose
\* last_in_tolerance is true sets last_in_tolerance to false and emits no
\* notification; a following out-of-tolerance submission leaves it false and
\* emits none either.
C1_OutOfToleranceRecordedSilently ==
    (TelemetryOk /\ Beyond(req.arg, Before)
        /\ LastInTolerance(Before) \in {"True", "False"}) =>
        /\ LastInTolerance(After) = "False"
        /\ Emitted = << >>

C1_Witness ==
    /\ TelemetryOk /\ Beyond(req.arg, Before)
    /\ LastInTolerance(Before) = "True"
    /\ LastInTolerance(After) = "False"

\* C2 as stated: a successful in-tolerance submission for a vessel whose
\* last_in_tolerance is false emits exactly one "BACK WITHIN TOLERANCE"
\* notification.
C2_EmitsOneBackWithin ==
    (TelemetryOk /\ Within(req.arg, Before) /\ LastInTolerance(Before) = "False") =>
        (Len(Emitted) = 1 /\ Emitted[1].kind = "BACK WITHIN TOLERANCE")

\* C2 amended: a successful in-tolerance submission for a vessel whose
\* last_in_tolerance is false sets last_in_tolerance to true and emits no
\* notification.
C2_BackWithinRecordedSilently ==
    (TelemetryOk /\ Within(req.arg, Before) /\ LastInTolerance(Before) = "False") =>
        /\ LastInTolerance(After) = "True"
        /\ Emitted = << >>

C2_Witness ==
    /\ TelemetryOk /\ Within(req.arg, Before)
    /\ LastInTolerance(Before) = "False"
    /\ LastInTolerance(After) = "True"

\* C3: the first successful telemetry submission for a vessel, whose
\* last_in_tolerance is still unknown, emits no notification, however far the
\* reading is from the target.
C3_FirstSubmissionSilent ==
    (TelemetryOk /\ LastInTolerance(Before) = Unknown) => Emitted = << >>

C3_Witness ==
    /\ TelemetryOk /\ LastInTolerance(Before) = Unknown
    /\ Beyond(req.arg, Before)
    /\ LastInTolerance(After) = "False"

\* C4: right after a successful telemetry submission the vessel's
\* last_in_tolerance is the verdict |current_temp - target_temp| <=
\* tolerance_c for the submitted temperature, whatever it was before.
C4_VerdictStored ==
    TelemetryOk =>
        /\ After.current_temp = req.arg
        /\ LastInTolerance(After) =
              (IF Within(req.arg, After) THEN "True" ELSE "False")

C4_Witness ==
    /\ TelemetryOk
    /\ LastInTolerance(Before) = "False"
    /\ LastInTolerance(After) = "True"
    /\ After.current_temp = After.target_temp + After.tolerance_c

\* C5: a telemetry submission for a known vessel with temperature < -10 or
\* > 120 is answered 400 and changes no vessel; -10 and 120 are accepted.
C5_TelemetryRange ==
    (req.op = "telemetry" /\ Known) =>
        /\ (FLt(req.arg, -1000) \/ FGt(req.arg, 12000)) =>
              (resp.status = 400 /\ VESSELS = prev.VESSELS)
        /\ req.arg \in {-1000, 12000} =>
              (resp.status = 200 /\ After.current_temp = req.arg)

C5_Witness ==
    /\ req.op = "telemetry" /\ Known
    /\ req.arg = 12001
    /\ resp.status = 400
    /\ LastInTolerance(Before) = "True"

\* C6: a telemetry submission whose vesselId matches no vessel is answered
\* 404, changes no vessel and dispatches no notification.
C6_TelemetryUnknownVessel ==
    (req.op = "telemetry" /\ ~Known) =>
        /\ resp.status = 404
        /\ VESSELS = prev.VESSELS
        /\ Emitted = << >>

C6_Witness ==
    /\ req.op = "telemetry" /\ ~Known
    /\ resp.status = 404
    /\ \E i \in 1..Len(VESSELS) : LastInTolerance(VESSELS[i]) = "True"

\* C7: the evaluator returns true exactly when current, target and tolerance
\* are all present and |current - target| <= tolerance, the band edge
\* included, and false when any of the three is absent.
C7_EvaluatorVerdict ==
    eval_out # "pending" =>
        eval_out = (IF EvalKeys \subseteq DOMAIN eval_in
                       /\ Within(eval_in.current_temp, eval_in)
                    THEN "True" ELSE "False")

C7_Witness ==
    /\ eval_out = "True"
    /\ eval_in.tolerance_c > 0
    /\ eval_in.current_temp - eval_in.target_temp = eval_in.tolerance_c

\* C8: a notification is emitted only by a telemetry evaluation that changes
\* the vessel's last_in_tolerance from true to false or from false to true;
\* an evaluation whose verdict equals the previous one emits nothing.
C8_EdgeTriggered ==
    /\ Emitted # << >> =>
          (TelemetryOk /\ {LastInTolerance(Before), LastInTolerance(After)}
                             = {"True", "False"})
    /\ (TelemetryOk /\ LastInTolerance(After) = LastInTolerance(Before)) =>
          Emitted = << >>

C8_Witness ==
    /\ TelemetryOk
    /\ LastInTolerance(Before) = "False"
    /\ LastInTolerance(After) = "False"
    /\ Before.current_temp # After.current_temp

\* C9: setTarget on a known vessel with targetTemp in [0, 100] sets only that
\* vessel's target_temp and last_update; an unknown id is answered 404 and a
\* targetTemp < 0 or > 100 is answered 400, both changing no vessel.
C9_SetTarget ==
    req.op = "setpoint" =>
        IF ~Known THEN resp.status = 404 /\ VESSELS = prev.VESSELS
        ELSE /\ (FLt(req.arg, 0) \/ FGt(req.arg, 10000)) =>
                   (resp.status = 400 /\ VESSELS = prev.VESSELS)
             /\ (FLe(0, req.arg) /\ FLe(req.arg, 10000)) =>
                   /\ resp.status = 200
                   /\ After.target_temp = req.arg
                   /\ After.last_update = now
                   /\ OnlyKeysChanged({"target_temp", "last_update"})
                   /\ OthersUnchanged

C9_Witness ==
    /\ req.op = "setpoint" /\ Known
    /\ resp.status = 200
    /\ After.target_temp = 10000
    /\ Before.target_temp # 10000
    /\ Has(Before, "last_in_tolerance")

\* C10: setTolerance on a known vessel with toleranceC in [0, 50] sets only
\* that vessel's tolerance_c and last_update; an unknown id is answered 404
\* and a toleranceC < 0 or > 50 is answered 400, both changing no vessel.
C10_SetTolerance ==
    req.op = "tolerance" =>
        IF ~Known THEN resp.status = 404 /\ VESSELS = prev.VESSELS
        ELSE /\ (FLt(req.arg, 0) \/ FGt(req.arg, 5000)) =>
                   (resp.status = 400 /\ VESSELS = prev.VESSELS)
             /\ (FLe(0, req.arg) /\ FLe(req.arg, 5000)) =>
                   /\ resp.status = 200
                   /\ After.tolerance_c = req.arg
                   /\ After.last_update = now
                   /\ OnlyKeysChanged({"tolerance_c", "last_update"})
                   /\ OthersUnchanged

C10_Witness ==
    /\ req.op = "tolerance" /\ Known
    /\ resp.status = 200
    /\ After.tolerance_c = 5000
    /\ Before.tolerance_c # 5000
    /\ Has(Before, "last_in_tolerance")

\* a float lies in [lo, hi]
InRange(x, lo, hi) == ~IsNaN(x) /\ lo <= x /\ x <= hi

\* the last request was a vessel query
Query == req.op \in {"get_vessels", "get_vessel"}

\* C11: in every reachable state every vessel's tolerance_c is within
\* [0, 50], its target_temp within [0, 100] and its current_temp within
\* [-10, 120].
C11_FieldsInRange ==
    \A i \in 1..Len(VESSELS) :
        /\ InRange(VESSELS[i].tolerance_c, 0, 5000)
        /\ InRange(VESSELS[i].target_temp, 0, 10000)
        /\ InRange(VESSELS[i].current_temp, -1000, 12000)

\* C12: after every simulation step the current_temp of a vessel of type
\* "Fermenter" lies in [15.0, 25.0] and that of any other vessel in
\* [0.0, 100.0], whatever current_temp and target_temp were before.
C12_SimulationClamped ==
    (Query /\ DUMMY_MODE) =>
        \A i \in 1..Len(VESSELS) :
            IF VESSELS[i].type = "Fermenter"
            THEN InRange(VESSELS[i].current_temp, 1500, 2500)
            ELSE InRange(VESSELS[i].current_temp, 0, 10000)

C12_Witness ==
    /\ Query /\ DUMMY_MODE
    /\ \E i \in 1..Len(VESSELS) :
          /\ VESSELS[i].type = "Fermenter"
          /\ prev.VESSELS[i].current_temp = 12000
          /\ VESSELS[i].current_temp = 2500
    /\ \E i \in 1..Len(VESSELS) :
          /\ VESSELS[i].type # "Fermenter"
          /\ IsNaN(prev.VESSELS[i].current_temp)

\* C13: a vessel's last_in_tolerance changes only in a successful telemetry
\* submission for that vessel; setters, simulation steps, queries, failed
\* requests and telemetry for other vessels leave it as it was, and none of
\* them emits a notification.
C13_OnlyTelemetryWritesVerdict ==
    /\ \A i \in 1..Len(VESSELS) :
          ( \/ Has(VESSELS[i], "last_in_tolerance") # Has(prev.VESSELS[i], "last_in_tolerance")
            \/ LastInTolerance(VESSELS[i]) # LastInTolerance(prev.VESSELS[i]) )
          => (TelemetryOk /\ Known /\ Addressed = i)
    /\ ~TelemetryOk => Emitted = << >>

C13_Witness ==
    /\ Query /\ DUMMY_MODE
    /\ \E i \in 1..Len(VESSELS) :
          /\ LastInTolerance(prev.VESSELS[i]) = "True"
          /\ LastInTolerance(VESSELS[i]) = "True"
          /\ Beyond(VESSELS[i].current_temp, VESSELS[i])
          /\ Within(prev.VESSELS[i].current_temp, prev.VESSELS[i])

\* the verdict |current_temp - target_temp| <= tolerance_c of a vessel dict
Verdict(v) == IF Within(v.current_temp, v) THEN "True" ELSE "False"

\* C14 as stated: after a simulation step every vessel's last_in_tolerance
\* is the verdict recomputed for the new current_temp, and a notification is
\* dispatched when that verdict differs from the prior last_in_tolerance.
C14_SimulationFeedsAlerts ==
    (Query /\ DUMMY_MODE) =>
        \A i \in 1..Len(VESSELS) :
            /\ LastInTolerance(VESSELS[i]) = Verdict(VESSELS[i])
            /\ ( /\ LastInTolerance(prev.VESSELS[i]) \in {"True", "False"}
                 /\ LastInTolerance(prev.VESSELS[i]) # Verdict(VESSELS[i]) )
               => Emitted # << >>

\* C14 amended: after a simulation step the verdict is recomputed for the
\* new current_temp only as the in_tolerance flag of the response; no
\* vessel's last_in_tolerance is compared or written and no notification is
\* dispatched.
C14_SimulationOnlyReportsVerdict ==
    (Query /\ DUMMY_MODE) =>
        /\ \A i \in 1..Len(VESSELS) :
              /\ Has(VESSELS[i], "last_in_tolerance") = Has(prev.VESSELS[i], "last_in_tolerance")
              /\ LastInTolerance(VESSELS[i]) = LastInTolerance(prev.VESSELS[i])
        /\ Emitted = << >>
        /\ (req.op = "get_vessels") =>
              \A i \in 1..Len(VESSELS) :
                  resp.body[i].in_tolerance = Within(VESSELS[i].current_temp, VESSELS[i])
        /\ (req.op = "get_vessel" /\ resp.status = 200) =>
              resp.body.in_tolerance = Within(After.current_temp, After)

C14_Witness ==
    /\ req.op = "get_vessels" /\ DUMMY_MODE
    /\ \E i \in 1..Len(VESSELS) :
          /\ LastInTolerance(VESSELS[i]) = "True"
          /\ Within(prev.VESSELS[i].current_temp, prev.VESSELS[i])
          /\ resp.body[i].in_tolerance = FALSE

\* C15: a GET /api/vessels/{id} request with an unknown id is answered 404
\* and leaves every vessel unchanged.
C15_UnknownQueryChangesNothing ==
    (req.op = "get_vessel" /\ ~Known) =>
        (resp.status = 404 /\ VESSELS = prev.VESSELS)

\* one simulation step from dict b to dict a: the temperature moves by a
\* draw in [-0.3, 0.3] plus a twentieth of the distance to the target, is
\* clamped to the range of the vessel's type and rounded to a hundredth;
\* last_update is the time of the request and nothing else changes
OneStep(b, a) ==
    LET lo      == IF b.type = "Fermenter" THEN 1500 ELSE 0
        hi      == IF b.type = "Fermenter" THEN 2500 ELSE 10000
        Clip(x) == IF x < 20 * lo THEN 20 * lo ELSE IF x > 20 * hi THEN 20 * hi ELSE x
        pulled  == 20 * b.current_temp + (b.target_temp - b.current_temp)
    IN  /\ DOMAIN a = DOMAIN b
        /\ \A k \in DOMAIN b \ {"current_temp", "last_update"} : a[k] = b[k]
        /\ a.last_update = now
        /\ InRange(a.current_temp, lo, hi)
        /\ (~IsNaN(b.current_temp) /\ ~IsNaN(b.target_temp)) =>
              /\ 20 * a.current_temp >= Clip(pulled - 600) - 10
              /\ 20 * a.current_temp <= Clip(pulled + 600) + 10

\* C16: in simulated mode each GET /api/vessels or GET /api/vessels/{id}
\* advances every vessel by one simulation step and sets its last_update;
\* in live mode these queries leave every vessel unchanged.
C16_QueriesSimulateAll ==
    Query =>
        IF DUMMY_MODE
        THEN /\ Len(VESSELS) = Len(prev.VESSELS)
             /\ \A i \in 1..Len(VESSELS) : OneStep(prev.VESSELS[i], VESSELS[i])
        ELSE VESSELS = prev.VESSELS

C16_Witness ==
    /\ req.op = "get_vessel" /\ Known /\ DUMMY_MODE
    /\ \A i \in 1..Len(VESSELS) :
          /\ VESSELS[i].current_temp # prev.VESSELS[i].current_temp
          /\ VESSELS[i].last_update = now
          /\ prev.VESSELS[i].last_update < now - 1

\* C17: a telemetry submission that passes validation is answered {ok: true}
\* and its updates to current_temp and last_in_tolerance are applied; no
\* outcome of a notification channel changes that.  Neither channel function
\* is ever called, and each can only return.
C17_ValidTelemetrySucceeds ==
    (req.op = "telemetry" /\ Known
        /\ ~(FLt(req.arg, -1000) \/ FGt(req.arg, 12000))) =>
        /\ resp = [status |-> 200, body |-> [ok |-> TRUE]]
        /\ After.current_temp = req.arg
        /\ LastInTolerance(After) = Verdict(After)

C17_Witness ==
    /\ TelemetryOk /\ resp.body.ok
    /\ req.arg = -1000
    /\ LastInTolerance(Before) = "True"
    /\ LastInTolerance(After) = "False"

\* C18 as stated: setTolerance raises no alert, and once it has left a
\* vessel with last_in_tolerance true outside its band, the next successful
\* telemetry submission still outside the band raises one "OUT OF TOLERANCE"
\* alert.
C18_LoweredToleranceAlertsOnReading ==
    /\ req.op = "tolerance" => Emitted = << >>
    /\ ( /\ TelemetryOk /\ LastInTolerance(Before) = "True"
         /\ Beyond(Before.current_temp, Before)
         /\ Beyond(req.arg, Before) )
       => (Len(Emitted) = 1 /\ Emitted[1].kind = "OUT OF TOLERANCE")

\* C18 amended: setTolerance raises no alert and leaves last_in_tolerance as
\* it was, and once it has left a vessel with last_in_tolerance true outside
\* its band, the next successful telemetry submission still outside the band
\* sets last_in_tolerance to false and raises no alert.
C18_LoweredToleranceRecordedOnReading ==
    /\ (req.op = "tolerance" /\ Known) =>
          /\ Emitted = << >>
          /\ Has(After, "last_in_tolerance") = Has(Before, "last_in_tolerance")
          /\ LastInTolerance(After) = LastInTolerance(Before)
    /\ ( /\ TelemetryOk /\ LastInTolerance(Before) = "True"
         /\ Beyond(Before.current_temp, Before)
         /\ Beyond(req.arg, Before) )
       => (LastInTolerance(After) = "False" /\ Emitted = << >>)

\* the telemetry that follows a setTolerance(0) on the hot liquor tank, itself
\* following a reading of 67.0 that was in the band of 2.0 around 65.0
C18_Witness ==
    /\ TelemetryOk /\ now = 3
    /\ Before.last_update = 2
    /\ Before.tolerance_c = 0
    /\ Before.current_temp = 6700 /\ Before.target_temp = 6500
    /\ LastInTolerance(Before) = "True"
    /\ Beyond(req.arg, Before)
    /\ LastInTolerance(After) = "False"

\* C19: a successful telemetry submission of the value the vessel already
\* holds, in the state a successful submission of that value leaves (stored
\* verdict equal to the verdict of the stored temperature), emits no
\* notification and leaves current_temp, target_temp, tolerance_c and
\* last_in_tolerance as they were.
C19_ResubmissionIdempotent ==
    ( /\ TelemetryOk
      /\ Before.current_temp = req.arg
      /\ Has(Before, "last_in_tolerance")
      /\ LastInTolerance(Before) = Verdict(Before) ) =>
        /\ Emitted = << >>
        /\ DOMAIN After = DOMAIN Before
        /\ \A k \in {"current_temp", "target_temp", "tolerance_c", "last_in_tolerance"} :
              After[k] = Before[k]

\* the second of two submissions of 68.0 for the hot liquor tank
C19_Witness ==
    /\ TelemetryOk /\ now = 2
    /\ req.arg = 6800
    /\ Before.current_temp = 6800 /\ Before.last_update = 1
    /\ LastInTolerance(Before) = "False"
    /\ LastInTolerance(After) = "False"

\* C20: the list of vessels and each vessel's id, code and type are as at
\* startup in every reachable state.
C20_IdentityFixed ==
    /\ Len(VESSELS) = Len(InitialVessels)
    /\ \A i \in 1..Len(InitialVessels) :
          /\ {"id", "code", "type"} \subseteq DOMAIN VESSELS[i]
          /\ VESSELS[i].id = InitialVessels[i].id
          /\ VESSELS[i].code = InitialVessels[i].code
          /\ VESSELS[i].type = InitialVessels[i].type

C20_Witness ==
    /\ req.op = "telemetry" /\ ~Known
    /\ \A i \in 1..Len(VESSELS) :
          /\ VESSELS[i].last_update > 0
          /\ VESSELS[i].current_temp # InitialVessels[i].current_temp
          /\ VESSELS[i].id = InitialVessels[i].id

\* the last request wrote to vessel i: a successful telemetry submission or
\* setter for it
Wrote(i) ==
    /\ req.op \in {"telemetry", "setpoint", "tolerance"}
    /\ resp.status = 200
    /\ Known /\ Addressed = i

\* C21: a vessel's last_in_tolerance is unknown at startup and stays unknown
\* until the vessel's first successful telemetry submission, which makes it
\* a definite boolean; once definite it is never unknown again.
C21_UnknownUntilFirstTelemetry ==
    /\ req.op = "startup" =>
          \A i \in 1..Len(VESSELS) : LastInTolerance(VESSELS[i]) = Unknown
    /\ \A i \in 1..Len(VESSELS) :
          IF TelemetryOk /\ Known /\ Addressed = i
          THEN LastInTolerance(VESSELS[i]) \in {"True", "False"}
          ELSE IF LastInTolerance(prev.VESSELS[i]) = Unknown
          THEN LastInTolerance(VESSELS[i]) = Unknown
          ELSE LastInTolerance(VESSELS[i]) \in {"True", "False"}

C21_Witness ==
    /\ req.op = "setpoint" /\ resp.status = 200 /\ now = 3
    /\ LastInTolerance(Before) \in {"True", "False"}
    /\ LastInTolerance(After) \in {"True", "False"}
    /\ \E i \in 1..Len(VESSELS) :
          /\ LastInTolerance(VESSELS[i]) = Unknown
          /\ VESSELS[i].last_update > 0

\* C24: a successful telemetry submission changes only the addressed
\* vessel's current_temp, last_update and last_in_tolerance; target_temp and
\* tolerance_c, which every vessel has from startup, keep their values, and
\* every other vessel is unchanged.
C24_TelemetryFrame ==
    /\ \A i \in 1..Len(VESSELS) :
          {"target_temp", "tolerance_c"} \subseteq DOMAIN VESSELS[i]
    /\ TelemetryOk =>
          /\ OnlyKeysChanged({"current_temp", "last_update", "last_in_tolerance"})
          /\ After.target_temp = Before.target_temp
          /\ After.tolerance_c = Before.tolerance_c
          /\ OthersUnchanged

C24_Witness ==
    /\ TelemetryOk
    /\ Has(Before, "last_in_tolerance")
    /\ After.target_temp # req.arg
    /\ After.tolerance_c # 0
    /\ After.current_temp # Before.current_temp
    /\ \E i \in 1..Len(VESSELS) :
          i # Addressed /\ VESSELS[i].last_update = now - 1

\* C25: a vessel's last_update is set to the current time by every
\* successful telemetry submission, setTarget and setTolerance for it and by
\* every simulation step, and by nothing else; it never decreases and a
\* failed request leaves it unchanged.
C25_LastUpdate ==
    \A i \in 1..Len(VESSELS) :
        /\ (Wrote(i) \/ (Query /\ DUMMY_MODE)) => VESSELS[i].last_update = now
        /\ VESSELS[i].last_update >= prev.VESSELS[i].last_update
        /\ resp.status \in {400, 404} =>
              VESSELS[i].last_update = prev.VESSELS[i].last_update

\* C26: a telemetry submission, setTarget or setTolerance with both an
\* unknown vessel id and a value outside its range is answered 404, not 400,
\* and changes no vessel.
C26_LookupBeforeRange ==
    ( /\ ~Known
      /\ \/ req.op = "telemetry" /\ (FLt(req.arg, -1000) \/ FGt(req.arg, 12000))
         \/ req.op = "setpoint" /\ (FLt(req.arg, 0) \/ FGt(req.arg, 10000))
         \/ req.op = "tolerance" /\ (FLt(req.arg, 0) \/ FGt(req.arg, 5000)) )
    => (resp.status = 404 /\ VESSELS = prev.VESSELS /\ Emitted = << >>)

C26_Witness ==
    /\ req.op = "telemetry" /\ ~Known
    /\ req.arg = 12001
    /\ resp.status = 404
    /\ prev.VESSELS # InitialVessels

\* |target_temp - current_temp| of a vessel, in hundredths of a degree
Distance(v) == FAbs(FSub(v.target_temp, v.current_temp))

\* the bounds the simulation clamps a vessel of v's type to
ClampLo(v) == IF v.type = "Fermenter" THEN 1500 ELSE 0
ClampHi(v) == IF v.type = "Fermenter" THEN 2500 ELSE 10000

\* the vessel is more than 6 degrees from its target
FarFromTarget(v) == ~IsNaN(Distance(v)) /\ Distance(v) > 600

\* C23 as stated: a simulation step on a vessel more than 6 degrees from its
\* target leaves it no farther from the target than it was, whatever the
\* draw, the vessel type, the current_temp and the target_temp.
C23_StepNoFarther ==
    (Query /\ DUMMY_MODE) =>
        \A i \in 1..Len(VESSELS) :
            FarFromTarget(prev.VESSELS[i]) =>
                Distance(VESSELS[i]) <= Distance(prev.VESSELS[i])

\* C23: a simulation step on a vessel more than 6 degrees from its target,
\* whose current_temp is a whole number of hundredths and whose current_temp
\* or target_temp lies within the clamp range of its type, leaves it no
\* farther from the target than it was, whatever the draw.  (Every
\* temperature of the model is a whole number of hundredths.)
C23_StepNoFartherInsideClamp ==
    (Query /\ DUMMY_MODE) =>
        \A i \in 1..Len(VESSELS) :
            LET b == prev.VESSELS[i]
            IN  ( /\ FarFromTarget(b)
                  /\ \/ InRange(b.current_temp, ClampLo(b), ClampHi(b))
                     \/ InRange(b.target_temp, ClampLo(b), ClampHi(b)) )
                => Distance(VESSELS[i]) <= Distance(b)

C23_Witness ==
    /\ Query /\ DUMMY_MODE
    /\ \E i \in 1..Len(VESSELS) :
          /\ prev.VESSELS[i].type = "Fermenter"
          /\ prev.VESSELS[i].current_temp = 12000
          /\ prev.VESSELS[i].target_temp = 1900
          /\ VESSELS[i].current_temp = 2500
    /\ \E i \in 1..Len(VESSELS) :
          /\ prev.VESSELS[i].type = "HLT"
          /\ FarFromTarget(prev.VESSELS[i])
          /\ Distance(VESSELS[i]) < Distance(prev.VESSELS[i])

\* every submission in flight has returned, and at least one was accepted
AllDone == tasks # << >> /\ \A k \in 1..Len(tasks) : tasks[k].pc = "done"
Accepted == {k \in 1..Len(tasks) : tasks[k].resp.status = 200}

\* C22: once telemetry submissions made together for the same vessel have
\* all completed, in whatever order the event loop ran them, the vessel's
\* current_temp is the temperature of one of the accepted submissions and
\* its last_in_tolerance is the verdict for that current_temp.
C22_LastWriterConsistent ==
    (AllDone /\ Accepted # {}) =>
        LET v == VESSELS[get_vessel(tasks[1].data.vesselId)]
        IN  /\ \E k \in Accepted : v.current_temp = tasks[k].data.temperature
            /\ LastInTolerance(v) = Verdict(v)

C22_Witness ==
    /\ AllDone /\ Accepted = {1, 2}
    /\ tasks[1].data.temperature = 6700
    /\ tasks[2].data.temperature = 6800
    /\ tasks[1].data.vesselId = "guid-hlt"
    /\ VESSELS[get_vessel("guid-hlt")].current_temp = 6700
    /\ LastInTolerance(VESSELS[get_vessel("guid-hlt")]) = "True"

\* C27: the unit a telemetry body names has no influence: the same request
\* naming another unit, made in the same state, gets the same response and
\* leaves the same vessel list.
C27_UnitIgnored ==
    (req.op = "telemetry" /\ twin.status = 1) =>
        /\ twin.resp = resp
        /\ twin.VESSELS = VESSELS

C27_Witness ==
    /\ req.op = "telemetry" /\ twin.status = 1
    /\ req.unit = "F" /\ twin.unit = "C"
    /\ resp.status = 200
    /\ req.arg = 6800
    /\ Known /\ After.current_temp = 6800
    /\ LastInTolerance(After) = "False"
    /\ LastInTolerance(Before) = "True"

====
